---- MODULE Spec2Model ----
(***************************************************************************)
(* Model of src/telebot.py: one run of main() - bot.start(), the dispatch  *)
(* of the message or of the file groups through the retry loops of         *)
(* TelegramBot.send_message / TelegramBot.send_files, and bot.stop() in    *)
(* the finally clause.  A state is a point where the coroutine is          *)
(* suspended in an await; an action is the completion of that await        *)
(* together with the code that runs up to the next await.                  *)
(***************************************************************************)
EXTENDS Integers, Sequences, FiniteSets, TLC

\* Bounds of the model.
MaxFiles == 4
MaxGroupSize == 3
MaxAttempts == 3

VARIABLES
    cli,          \* the command line: --retry, --max-files, --dry-run, --files as given or not
    cfgfile,      \* the JSON file of --config: the settings it holds (none when no --config)
    config,       \* BotConfig: dry_run, retry_attempts, max_files_per_group, files_path
    files,        \* list(Path().glob(config.files_path)), the matched files in glob order
    pc,           \* the await main() is suspended in, or "done"
    group_idx,    \* send_files: index of the group being sent (1-based)
    attempt,      \* send_message / send_files: current value of the loop variable attempt
    trace,        \* every awaited call that has ended, in order, with how it ended
    unitResults,  \* per unit (0 = the bare message, k = file group k) its logged outcome
    ret,          \* what main() is about to report when the finally clause is done
    exit_status   \* how main() ended: "running", "return0", "return1", "raised"

vars == <<cli, cfgfile, config, files, pc, group_idx, attempt, trace, unitResults, ret, exit_status>>

----------------------------------------------------------------------------
\* Pure helpers, computed as the Python code computes them.

Min(a, b) == IF a < b THEN a ELSE b

\* len(range(0, n, step)) for n >= 0; step = 0 raises ValueError (see RangeRaises).
RangeLen(n, step) ==
    IF step > 0 THEN (n + step - 1) \div step ELSE 0

\* range(0, n, 0) raises ValueError("range() arg 3 must not be zero").
RangeRaises(step) == step = 0

\* files[i:j] with 0 <= i, Python slice semantics (the end is clipped to len).
SliceDropLast(fs, i, j) == SubSeq(fs, i + 1, Min(j, Len(fs)) - 1)

Slice(fs, i, j) == SubSeq(fs, i + 1, Min(j, Len(fs)))

\* file_groups = [files[i:i + m] for i in range(0, len(files), m)]
FileGroups(fs, m) ==
    [k \in 1..RangeLen(Len(fs), m) |-> Slice(fs, (k - 1) * m, (k - 1) * m + m)]

\* attempts = self.config.retry_attempts if retry else 1   (retry is always True)
AttemptsPlusOne(cfg) == cfg.retry_attempts + 1

Attempts(cfg) == cfg.retry_attempts

\* "if attempt < attempts" in the except clause of both retry loops.
ShouldRetryOffByOne(a, n) == a <= n

ShouldRetry(a, n) == a < n

\* "except Exception" of the retry loops: which raised kinds the loop absorbs.
\* KeyboardInterrupt and asyncio.CancelledError derive from BaseException.
LoopCatchesAll(e) == TRUE

LoopCatches(e) == e = "Exception"

\* The group a retry re-sends: the inner loop stays on the same file_group.
GroupAfterRetryRestart(g) == 1

GroupAfterRetry(g) == g

\* main(): the except clauses. KeyboardInterrupt and Exception are caught
\* and return 1; CancelledError is not caught and leaves main() raised.
MainExceptSwallows(e) ==
    IF e = "KeyboardInterrupt" THEN "return1"
    ELSE IF e = "Exception" THEN "return0" ELSE "raised"

MainExcept(e) ==
    IF e \in {"KeyboardInterrupt", "Exception"} THEN "return1" ELSE "raised"

\* main(): finally: if 'bot' in locals(): await bot.stop().
\* bot is bound at line 350, before every await of main().
BotInLocalsOnlyOnReturn0(r) == r = "return0"

BotInLocals(r) == TRUE

\* One awaited call that has ended: which call, for which unit and attempt,
\* the 'file' argument it carried (send_file only) and how it ended.
Event(op, unit, att, fl, res) ==
    [op |-> op, unit |-> unit, attempt |-> att, file |-> fl, res |-> res]

----------------------------------------------------------------------------
\* parse_arguments(): from the command line and the config file to BotConfig.
\* An option or a file key is <<>> when it is not given and <<v>> when given.

\* Defaults of the argparse options --max-files and --retry.
MaxFilesDefault == 10
RetryDefault == 3

\* Defaults of the BotConfig fields max_files_per_group and retry_attempts.
ConfigMaxFilesDefault == 10
ConfigRetryAttemptsDefault == 3

OrDefault(opt, d) == IF opt = <<>> THEN d ELSE opt[1]

\* args = parser.parse_args(): an option that is not given holds its default,
\* so --retry, --max-files and --dry-run (a store_true flag, False when not
\* given) are never None; --files has no default.
Argparse(c) ==
    [retry |-> <<OrDefault(c.retry, RetryDefault)>>,
     max_files |-> <<OrDefault(c.max_files, MaxFilesDefault)>>,
     dry_run |-> <<c.dry_run>>,
     files |-> c.files]

\* "if value is not None: config_data[key] = value"
Override(filevalue, argvalue) ==
    IF argvalue # <<>> THEN argvalue ELSE filevalue

\* config_data after "Override with command line arguments": 'max_files' is
\* stored under max_files_per_group and every other key, 'retry' included,
\* under its own name; retry_attempts is the key of no option, so the value
\* of the file stays.
ConfigData(args, file) ==
    [retry |-> Override(<<>>, args.retry),
     retry_attempts |-> file.retry_attempts,
     max_files_per_group |-> Override(file.max_files_per_group, args.max_files),
     dry_run |-> Override(file.dry_run, args.dry_run),
     files_path |-> args.files]

\* BotConfig.from_dict: keys that are no field of BotConfig ('retry') are
\* dropped, fields without a key take the dataclass default.
FromDict(data) ==
    [dry_run |-> OrDefault(data.dry_run, FALSE),
     retry_attempts |-> OrDefault(data.retry_attempts, ConfigRetryAttemptsDefault),
     max_files_per_group |->
         OrDefault(data.max_files_per_group, ConfigMaxFilesDefault),
     files_path |-> data.files_path]

ParseArguments(c, file) == FromDict(ConfigData(Argparse(c), file))

Option(S) == {<<>>} \cup {<<v>> : v \in S}

\* Command lines: --retry N with N >= 1, --max-files with any integer.
CommandLines ==
    [retry : Option(1..MaxAttempts),
     max_files : Option((0 - 1)..MaxGroupSize),
     dry_run : BOOLEAN,
     files : {"None", "pattern"}]

\* Config files: retry_attempts is any integer, dry_run a boolean.
ConfigFiles ==
    [retry_attempts : Option(0..MaxAttempts),
     max_files_per_group : Option({1}),
     dry_run : Option({TRUE})]

\* The BotConfig values of the model.
Configs ==
    [dry_run : BOOLEAN,
     retry_attempts : (0..MaxAttempts) \cup {ConfigRetryAttemptsDefault},
     max_files_per_group : ((0 - 1)..MaxGroupSize) \cup {MaxFilesDefault},
     files_path : {"None", "pattern"}]

FileLists == { [i \in 1..n |-> i] : n \in 0..MaxFiles }

Init ==
    /\ cli \in CommandLines
    /\ cfgfile \in ConfigFiles
    /\ config = ParseArguments(cli, cfgfile)
    /\ files \in FileLists
    /\ (config.files_path = "None" => files = <<>>)
    /\ pc = "start"
    /\ group_idx = 0
    /\ attempt = 0
    /\ trace = <<>>
    /\ unitResults = [u \in 0..Len(files) |-> "Pending"]
    /\ ret = "return0"
    /\ exit_status = "running"

\* total_groups = len(file_groups)
total_groups == RangeLen(Len(files), config.max_files_per_group)

file_groups == FileGroups(files, config.max_files_per_group)

\* kwargs['file'] = [str(f) for f in file_group]
FileArg(op, unit) == IF op = "send_file" THEN file_groups[unit] ELSE <<>>

Log(op, unit, att, res) ==
    trace' = Append(trace, Event(op, unit, att, FileArg(op, unit), res))

\* Control reaches the finally clause of main() with r about to be reported.
ToFinally(r) ==
    /\ ret' = r
    /\ IF BotInLocals(r)
         THEN pc' = "stop" /\ exit_status' = exit_status
         ELSE pc' = "done" /\ exit_status' = r
    /\ UNCHANGED <<group_idx, attempt>>

\* An exception of kind e leaves send_message / send_files and reaches main().
RaiseToMain(e) == ToFinally(MainExcept(e))

\* send_message(config.message) up to its first await.
EnterSendMessage ==
    IF config.dry_run \/ Attempts(config) < 1
      THEN ToFinally("return0")
      ELSE /\ pc' = "send_message"
           /\ attempt' = 1
           /\ UNCHANGED <<group_idx, ret, exit_status>>

\* send_files(files, config.message) up to its first await.
EnterSendFiles ==
    IF files = <<>> \/ config.dry_run
      THEN ToFinally("return0")
    ELSE IF RangeRaises(config.max_files_per_group)
      THEN RaiseToMain("Exception")
    ELSE IF total_groups < 1 \/ Attempts(config) < 1
      THEN ToFinally("return0")
    ELSE /\ pc' = "send_file"
         /\ group_idx' = 1
         /\ attempt' = 1
         /\ UNCHANGED <<ret, exit_status>>

\* main() without the "if files:" test of line 358.
DispatchWithoutFallback ==
    IF config.files_path # "None"
      THEN EnterSendFiles
      ELSE EnterSendMessage

\* main(): the body between bot.start() and the first await of the send.
Dispatch ==
    IF config.files_path # "None" /\ files # <<>>
      THEN EnterSendFiles
      ELSE EnterSendMessage

\* bot.start() returns.
StartOk ==
    /\ pc = "start"
    /\ Log("start", 0, 0, "ok")
    /\ Dispatch
    /\ UNCHANGED <<cli, cfgfile, config, files, unitResults>>

\* bot.start() raises.
StartFail ==
    /\ pc = "start"
    /\ Log("start", 0, 0, "fail")
    /\ RaiseToMain("Exception")
    /\ UNCHANGED <<cli, cfgfile, config, files, unitResults>>

\* The except clause of send_message's retry loop.
MessageFailed ==
    IF ShouldRetry(attempt, Attempts(config))
      THEN /\ pc' = "msg_retry_sleep"
           /\ UNCHANGED <<group_idx, attempt, unitResults, ret, exit_status>>
      ELSE /\ unitResults' = [unitResults EXCEPT ![0] = "Failed"]
           /\ RaiseToMain("Exception")

\* client.send_message(**kwargs) returns.
SendMessageOk ==
    /\ pc = "send_message"
    /\ Log("send_message", 0, attempt, "ok")
    /\ unitResults' = [unitResults EXCEPT ![0] = "Success"]
    /\ ToFinally("return0")
    /\ UNCHANGED <<cli, cfgfile, config, files>>

\* client.send_message(**kwargs) raises.
SendMessageFail ==
    /\ pc = "send_message"
    /\ Log("send_message", 0, attempt, "fail")
    /\ MessageFailed
    /\ UNCHANGED <<cli, cfgfile, config, files>>

\* asyncio.sleep(retry_delay) of send_message returns; next loop iteration.
MsgRetrySleepDone ==
    /\ pc = "msg_retry_sleep"
    /\ Log("retry_sleep", 0, attempt, "done")
    /\ IF attempt + 1 <= Attempts(config)
         THEN /\ pc' = "send_message"
              /\ attempt' = attempt + 1
              /\ UNCHANGED <<group_idx, ret, exit_status>>
         ELSE ToFinally("return0")
    /\ UNCHANGED <<cli, cfgfile, config, files, unitResults>>

\* The outer loop of send_files moves on from group g.
NextGroup(g) ==
    IF g < total_groups
      THEN /\ pc' = "send_file"
           /\ group_idx' = g + 1
           /\ attempt' = 1
           /\ UNCHANGED <<ret, exit_status>>
      ELSE ToFinally("return0")

\* The except clause of send_files' retry loop.
GroupFailed ==
    IF ShouldRetry(attempt, Attempts(config))
      THEN /\ pc' = "grp_retry_sleep"
           /\ UNCHANGED <<group_idx, attempt, unitResults, ret, exit_status>>
      ELSE /\ unitResults' = [unitResults EXCEPT ![group_idx] = "Failed"]
           /\ RaiseToMain("Exception")

\* client.send_file(**kwargs) returns.
SendFileOk ==
    /\ pc = "send_file"
    /\ Log("send_file", group_idx, attempt, "ok")
    /\ unitResults' = [unitResults EXCEPT ![group_idx] = "Success"]
    /\ IF group_idx < total_groups
         THEN /\ pc' = "pace_sleep"
              /\ UNCHANGED <<group_idx, attempt, ret, exit_status>>
         ELSE NextGroup(group_idx)
    /\ UNCHANGED <<cli, cfgfile, config, files>>

\* client.send_file(**kwargs) raises.
SendFileFail ==
    /\ pc = "send_file"
    /\ Log("send_file", group_idx, attempt, "fail")
    /\ GroupFailed
    /\ UNCHANGED <<cli, cfgfile, config, files>>

\* asyncio.sleep(1) after a sent group returns; break, next group.
PaceSleepDone ==
    /\ pc = "pace_sleep"
    /\ Log("pace_sleep", group_idx, attempt, "done")
    /\ NextGroup(group_idx)
    /\ UNCHANGED <<cli, cfgfile, config, files, unitResults>>

\* asyncio.sleep(retry_delay) of send_files returns; next loop iteration.
GrpRetrySleepDone ==
    /\ pc = "grp_retry_sleep"
    /\ Log("retry_sleep", group_idx, attempt, "done")
    /\ IF attempt + 1 <= Attempts(config)
         THEN /\ pc' = "send_file"
              /\ group_idx' = GroupAfterRetry(group_idx)
              /\ attempt' = attempt + 1
              /\ UNCHANGED <<ret, exit_status>>
         ELSE NextGroup(group_idx)
    /\ UNCHANGED <<cli, cfgfile, config, files, unitResults>>

\* Ctrl-C while main() is suspended in an await: the await raises
\* KeyboardInterrupt (signal delivered inside the coroutine) or
\* asyncio.CancelledError (asyncio.run cancels the main task).
InterruptKinds == {"KeyboardInterrupt", "CancelledError"}

AwaitedOp ==
    CASE pc = "start" -> "start"
      [] pc = "send_message" -> "send_message"
      [] pc = "send_file" -> "send_file"
      [] pc = "pace_sleep" -> "pace_sleep"
      [] OTHER -> "retry_sleep"

Interrupt ==
    /\ pc \in {"start", "send_message", "msg_retry_sleep",
               "send_file", "pace_sleep", "grp_retry_sleep"}
    /\ \E e \in InterruptKinds :
          /\ Log(AwaitedOp, group_idx, attempt, "interrupted")
          /\ IF pc = "send_message" /\ LoopCatches(e)
               THEN MessageFailed
             ELSE IF pc \in {"send_file", "pace_sleep"} /\ LoopCatches(e)
               THEN GroupFailed
             ELSE RaiseToMain(e) /\ UNCHANGED unitResults
    /\ UNCHANGED <<cli, cfgfile, config, files>>

\* bot.stop(): client.disconnect() returns; main() reports ret.
StopOk ==
    /\ pc = "stop"
    /\ Log("disconnect", 0, 0, "ok")
    /\ pc' = "done"
    /\ exit_status' = ret
    /\ UNCHANGED <<cli, cfgfile, config, files, group_idx, attempt, unitResults, ret>>

\* bot.stop(): client.disconnect() raises inside the finally clause, which
\* replaces the pending return or exception.
StopFail ==
    /\ pc = "stop"
    /\ Log("disconnect", 0, 0, "fail")
    /\ pc' = "done"
    /\ exit_status' = "raised"
    /\ UNCHANGED <<cli, cfgfile, config, files, group_idx, attempt, unitResults, ret>>

Next ==
    \/ StartOk
    \/ StartFail
    \/ SendMessageOk
    \/ SendMessageFail
    \/ MsgRetrySleepDone
    \/ SendFileOk
    \/ SendFileFail
    \/ PaceSleepDone
    \/ GrpRetrySleepDone
    \/ Interrupt
    \/ StopOk
    \/ StopFail

Spec == Init /\ [][Next]_vars

TypeOK ==
    /\ config \in Configs
    /\ files \in FileLists
    /\ pc \in {"start", "send_message", "msg_retry_sleep", "send_file",
               "pace_sleep", "grp_retry_sleep", "stop", "done"}
    /\ group_idx \in 0..MaxFiles
    /\ cli \in CommandLines
    /\ cfgfile \in ConfigFiles
    /\ attempt \in 0..MaxAttempts
    /\ ret \in {"return0", "return1", "raised"}
    /\ exit_status \in {"running", "return0", "return1", "raised"}

----------------------------------------------------------------------------
\* Observations on the trace of ended calls.

SendOps == {"send_message", "send_file"}

Idx == DOMAIN trace

\* Positions of the send calls made for unit u (0 = the message).
SendsOf(u) == {i \in Idx : trace[i].op \in SendOps /\ trace[i].unit = u}

Units == 0..total_groups

RealMode == ~config.dry_run

Interrupted == \E i \in Idx : trace[i].res = "interrupted"

SessionOpened == \E i \in Idx : trace[i].op = "start" /\ trace[i].res = "ok"

TeardownAttempted == \E i \in Idx : trace[i].op = "disconnect"

Finished == pc = "done"

----------------------------------------------------------------------------
\* C1: in real mode with two or more groups, a group whose every attempt
\* failed is recorded as Failed and does not stop the run: once the run has
\* finished (without an interrupt), every later group has been attempted at
\* least once.
C1_FailedGroupDoesNotStopRun ==
    (Finished /\ RealMode /\ ~Interrupted
        /\ total_groups >= 2 /\ Attempts(config) >= 1)
    => \A g \in 1..total_groups :
          unitResults[g] = "Failed"
          => \A h \in (g + 1)..total_groups : SendsOf(h) # {}

\* C2: a transport error raised by a send call is absorbed by the retry
\* logic: in a run that was not interrupted, a failed send never makes
\* main()'s except clause run (the exception never leaves send_message /
\* send_files), whatever the attempt number.
C2_TransportErrorAbsorbed ==
    (~Interrupted /\ \E i \in Idx : trace[i].op \in SendOps /\ trace[i].res = "fail")
    => ret = "return0"

\* C3: with dry_run set, a run performs no remote call: no session open,
\* no send-text and no send-files call is ever made.
C3_DryRunNoRemoteCall ==
    config.dry_run
    => \A i \in Idx : trace[i].op \notin {"start", "send_message", "send_file"}

\* C4: retry_attempts = 0 is rejected as a configuration error: no send call
\* is made and the run does not end reported as successful.
C4_ZeroAttemptsRejected ==
    Attempts(config) = 0
    => /\ \A i \in Idx : trace[i].op \notin SendOps
       /\ (Finished => exit_status # "return0")

\* C5: on every exit path of a run whose session was opened, a teardown call
\* (bot.stop / client.disconnect) has been attempted by the time the run
\* reports its final status.
C5_TeardownOnEveryExit ==
    (exit_status # "running" /\ SessionOpened) => TeardownAttempted

\* A run whose session was opened, in which a unit failed terminally, has
\* reported its status after a teardown call.
C5_Witness ==
    /\ Finished
    /\ SessionOpened
    /\ \E u \in Units : unitResults[u] = "Failed"
    /\ exit_status = "return1"
    /\ TeardownAttempted

\* The send calls made for unit u, in the order they were made.
SendSeq(u) ==
    SelectSeq(trace, LAMBDA e : e.op \in SendOps /\ e.unit = u)

\* C6: for every unit and every retry_attempts = N >= 1: the attempts of a
\* unit are numbered 1, 2, ... without a gap; a unit logged Failed made
\* exactly N attempts, all failing; a unit logged Success made exactly k <= N
\* attempts, the first k-1 failing and the k-th succeeding, and none after it;
\* and in a finished, uninterrupted run a unit whose sends all failed made
\* exactly N attempts and is logged Failed.
C6_ExactAttemptCounts ==
    Attempts(config) >= 1
    => \A u \in Units :
         LET sq == SendSeq(u)
             n == Len(sq)
         IN /\ \A i \in 1..n : sq[i].attempt = i
            /\ n <= Attempts(config)
            /\ \A i \in 1..(n - 1) : sq[i].res = "fail"
            /\ unitResults[u] = "Failed"
                 => n = Attempts(config) /\ sq[n].res = "fail"
            /\ unitResults[u] = "Success"
                 => n >= 1 /\ sq[n].res = "ok"
            /\ (n >= 1 /\ sq[n].res = "ok") => unitResults[u] = "Success"
            /\ (pc \in {"stop", "done"} /\ ~Interrupted
                  /\ n >= 1 /\ sq[n].res = "fail")
                 => n = Attempts(config) /\ unitResults[u] = "Failed"

\* Group 1 succeeded on its second attempt and group 2 failed all of its
\* N >= 2 attempts.
C6_Witness ==
    /\ Attempts(config) >= 2
    /\ total_groups >= 2
    /\ unitResults[1] = "Success"
    /\ Len(SendSeq(1)) = 2
    /\ unitResults[2] = "Failed"
    /\ Len(SendSeq(2)) = Attempts(config)

RECURSIVE Concat(_)
Concat(groups) ==
    IF groups = <<>> THEN <<>>
    ELSE Head(groups) \o Concat(Tail(groups))

\* C7: for a non-empty file list and max_files_per_group >= 1, the groups
\* send_files builds concatenate back to the file list, each group has
\* between 1 and max_files_per_group files, and the last group has
\* len(files) mod max_files_per_group files, or max_files_per_group when
\* that is 0.
C7_GroupsPartitionFiles ==
    (files # <<>> /\ config.max_files_per_group >= 1)
    => LET m == config.max_files_per_group
           gs == file_groups
       IN /\ Concat(gs) = files
          /\ Len(gs) >= 1
          /\ \A k \in 1..Len(gs) : Len(gs[k]) >= 1 /\ Len(gs[k]) <= m
          /\ Len(gs[Len(gs)]) =
               IF Len(files) % m = 0 THEN m ELSE Len(files) % m

\* The last of several groups, shorter than max_files_per_group, has been
\* handed to client.send_file.
C7_Witness ==
    /\ config.max_files_per_group >= 2
    /\ total_groups >= 2
    /\ Len(files) % config.max_files_per_group # 0
    /\ \E i \in Idx :
          /\ trace[i].op = "send_file"
          /\ trace[i].unit = total_groups
          /\ trace[i].file = file_groups[total_groups]
          /\ Len(trace[i].file) = Len(files) % config.max_files_per_group

\* The send_file calls of the run, in call order.
SendFileSeq == SelectSeq(trace, LAMBDA e : e.op = "send_file")

\* C8: groups are processed strictly sequentially: the send_file calls are
\* non-decreasing in group index, and when a call for a group is made every
\* earlier group is already resolved (a successful send, or a failed last
\* attempt), so attempts of different groups never interleave.
C8_GroupsSequential ==
    LET sq == SendFileSeq
    IN \A j \in 1..Len(sq) :
          /\ \A i \in 1..(j - 1) : sq[i].unit <= sq[j].unit
          /\ \A g \in 1..(sq[j].unit - 1) :
                \E i \in 1..(j - 1) :
                   /\ sq[i].unit = g
                   /\ \/ sq[i].res = "ok"
                      \/ sq[i].res = "fail" /\ sq[i].attempt = Attempts(config)

\* Three groups: group 1 sent, group 2 failed once and was then sent, and
\* the first attempt of group 3 followed.
C8_Witness ==
    LET sq == SendFileSeq
    IN /\ total_groups = 3
       /\ Len(sq) = 4
       /\ sq[1].unit = 1 /\ sq[1].res = "ok"
       /\ sq[2].unit = 2 /\ sq[2].attempt = 1 /\ sq[2].res = "fail"
       /\ sq[3].unit = 2 /\ sq[3].attempt = 2 /\ sq[3].res = "ok"
       /\ sq[4].unit = 3 /\ sq[4].attempt = 1

\* Number of pacing delays that were waited to their end.
PacingDelays ==
    Cardinality({i \in Idx : trace[i].op = "pace_sleep" /\ trace[i].res = "done"})

\* C9: in a finished, uninterrupted real-mode run over G >= 1 groups, every
\* group but the last that was resolved, as Success or as Failed, was
\* followed by a pacing delay and then by the first attempt of the next
\* group, and no pacing delay followed the last group.
C9_PacingAfterEveryGroup ==
    (Finished /\ RealMode /\ ~Interrupted /\ SessionOpened
        /\ total_groups >= 1 /\ Attempts(config) >= 1)
    => /\ \A g \in 1..(total_groups - 1) :
             unitResults[g] # "Pending"
             => \E i \in Idx :
                   /\ trace[i].op = "pace_sleep"
                   /\ trace[i].unit = g
                   /\ trace[i].res = "done"
                   /\ \E j \in Idx :
                         /\ j > i
                         /\ trace[j].op = "send_file"
                         /\ trace[j].unit = g + 1
                         /\ trace[j].attempt = 1
       /\ \A i \in Idx :
             trace[i].op = "pace_sleep" => trace[i].unit # total_groups

\* C10: after an interrupt has arrived in an await (a send, a retry wait or
\* a pacing wait), no send call and no wait follows it, and a finished run
\* has attempted the session teardown after it.
C10_NoSendAfterInterrupt ==
    \A i \in Idx :
       trace[i].res = "interrupted"
       => /\ \A j \in Idx :
                j > i => trace[j].op \notin
                            (SendOps \cup {"retry_sleep", "pace_sleep"})
          /\ Finished => \E j \in Idx : j > i /\ trace[j].op = "disconnect"

\* A retry wait of a file group was interrupted after the session had been
\* opened, and the run finished with a teardown call.
C10_Witness ==
    /\ Finished
    /\ SessionOpened
    /\ \E i \in Idx :
          /\ trace[i].op = "retry_sleep"
          /\ trace[i].unit >= 1
          /\ trace[i].res = "interrupted"
          /\ i + 1 \in Idx
          /\ trace[i + 1].op = "disconnect"

----------------------------------------------------------------------------
StartFailed == \E i \in Idx : trace[i].op = "start" /\ trace[i].res = "fail"

TeardownFailed == \E i \in Idx : trace[i].op = "disconnect" /\ trace[i].res = "fail"

SomeUnitFailed == \E u \in Units : unitResults[u] = "Failed"

\* C11: a run ended by user cancellation reports a status distinct from the
\* status of a generic failure: it never ends with the value main() returns
\* for an exception (return 1).
C11_CancelledStatusDistinct ==
    (Finished /\ Interrupted) => exit_status # MainExcept("Exception")

\* C12: if bot.start() raises, no send-text or send-files call is ever made
\* in that run and the run reports a failure status.
C12_StartFailureAborts ==
    StartFailed
    => /\ \A i \in Idx : trace[i].op \notin SendOps
       /\ pc \in {"stop", "done"}
       /\ ret # "return0"
       /\ (Finished => exit_status \in {"return1", "raised"})

\* bot.start() raised and the run ended with status 1, with no send call.
C12_Witness ==
    /\ Finished
    /\ StartFailed
    /\ exit_status = "return1"
    /\ \A i \in Idx : trace[i].op \notin SendOps

\* A configuration the retry loops and the grouping are written for.
ValidPolicy == Attempts(config) >= 1 /\ config.max_files_per_group >= 1

\* C13: in real mode with a valid retry policy and group size, once the
\* session is open: with no pattern or no matched file the run dispatches
\* the bare message (the only unit with send calls, all of them send_message)
\* and makes no send_file call; with a matched file it dispatches send_file
\* calls and makes no send_message call.
C13_MessageOrFiles ==
    (RealMode /\ ValidPolicy /\ SessionOpened)
    => IF config.files_path = "None" \/ files = <<>>
         THEN /\ \A i \in Idx : trace[i].op # "send_file"
              /\ pc = "send_message" \/ SendsOf(0) # {}
              /\ \A u \in Units : u # 0 => SendsOf(u) = {}
         ELSE /\ \A i \in Idx : trace[i].op # "send_message"
              /\ pc = "send_file" \/ SendsOf(1) # {}

\* A pattern that matched no file: the bare message was sent, after a retry.
C13_Witness ==
    /\ Finished
    /\ RealMode
    /\ config.files_path = "pattern"
    /\ files = <<>>
    /\ unitResults[0] = "Success"
    /\ Len(SendSeq(0)) = 2
    /\ \A i \in Idx : trace[i].op # "send_file"

\* C14: an error raised by the teardown call is not raised out of the run:
\* the run ends with the status it was about to report.
C14_TeardownErrorNotRaised ==
    (Finished /\ TeardownFailed) => exit_status = ret

\* The run ended by an exception or an interrupt: bot.start() raised, the
\* grouping raised (range() step 0), an await was interrupted or the
\* teardown call raised.
Aborted ==
    \/ StartFailed
    \/ Interrupted
    \/ TeardownFailed
    \/ /\ SessionOpened /\ RealMode /\ files # <<>>
       /\ RangeRaises(config.max_files_per_group)

----------------------------------------------------------------------------
\* C16: the value N >= 1 given with --retry is the attempt budget of the
\* retry loops: a unit whose sends all failed (logged Failed) was attempted
\* exactly N times.
C16_RetryOptionIsBudget ==
    cli.retry # <<>>
    => \A u \in Units :
          unitResults[u] = "Failed" => Len(SendSeq(u)) = cli.retry[1]

\* The retry waits of unit u that have ended or were interrupted.
RetrySleepsOf(u) ==
    {i \in Idx : trace[i].op = "retry_sleep" /\ trace[i].unit = u}

\* C17: a retry wait happens only right after a failed attempt of a unit
\* that is not its last one (never after a success, never after the final
\* failure), it is followed by the next attempt of the same unit, and a
\* unit that failed all N attempts waited exactly N-1 times (not at all
\* when N = 1).
C17_RetryWaitsOnlyBetweenAttempts ==
    /\ \A i \in Idx :
          trace[i].op = "retry_sleep"
          => /\ i > 1
             /\ trace[i - 1].op \in SendOps
             /\ trace[i - 1].res = "fail"
             /\ trace[i - 1].unit = trace[i].unit
             /\ trace[i - 1].attempt = trace[i].attempt
             /\ trace[i].attempt < Attempts(config)
             /\ (i + 1 \in Idx /\ trace[i].res = "done")
                  => /\ trace[i + 1].op \in SendOps
                     /\ trace[i + 1].unit = trace[i].unit
                     /\ trace[i + 1].attempt = trace[i].attempt + 1
    /\ \A u \in Units :
          unitResults[u] = "Failed"
          => Cardinality(RetrySleepsOf(u)) = Attempts(config) - 1
    /\ \A i \in Idx :
          (trace[i].op \in SendOps /\ trace[i].res = "fail"
             /\ trace[i].attempt < Attempts(config) /\ i + 1 \in Idx)
          => trace[i + 1].op = "retry_sleep"

\* A file group failed all of its three attempts and waited twice.
C17_Witness ==
    /\ Attempts(config) = 3
    /\ total_groups >= 1
    /\ unitResults[1] = "Failed"
    /\ Cardinality(RetrySleepsOf(1)) = 2
    /\ Finished

\* C18: a setting of the config file is the value the run uses when its
\* command-line option is not given; with dry_run = true in the file and no
\* --dry-run flag the run makes no send call.
C18_ConfigFileSettingsUsed ==
    pc # "start"
    => /\ (cfgfile.dry_run = <<TRUE>> /\ ~cli.dry_run)
            => /\ config.dry_run
               /\ \A i \in Idx : trace[i].op \notin SendOps
       /\ (cfgfile.max_files_per_group # <<>> /\ cli.max_files = <<>>)
            => config.max_files_per_group = cfgfile.max_files_per_group[1]
       /\ (cfgfile.retry_attempts # <<>> /\ cli.retry = <<>>)
            => config.retry_attempts = cfgfile.retry_attempts[1]

\* The 'file' arguments of the successful send_file calls, concatenated in
\* call order.
FilesSent ==
    LET sq == SelectSeq(SendFileSeq, LAMBDA e : e.res = "ok")
    IN Concat([k \in 1..Len(sq) |-> sq[k].file])

\* C19: in real mode with a non-empty matched file list, for every value of
\* retry_attempts and max_files_per_group the configuration accepts, a run
\* that ends with exit status 0 has sent every file in exactly one
\* successful send_file call, in the order of the list.
C19_ExitZeroMeansAllFilesSent ==
    (Finished /\ exit_status = "return0" /\ RealMode
        /\ config.files_path = "pattern" /\ files # <<>>)
    => FilesSent = files

\* The number of units of the run: the bare message, or the file groups.
NumUnits ==
    IF config.files_path = "None" \/ files = <<>> THEN 1 ELSE total_groups

SendCount == Cardinality({i \in Idx : trace[i].op \in SendOps})

\* Every awaited call ends (the send returns or raises, the sleep elapses or
\* is interrupted) and the event loop then resumes main().
FairSpec == Spec /\ WF_vars(Next)

\* C20: with retry_attempts >= 1 and max_files_per_group >= 1 a run never
\* makes more than (number of units) x retry_attempts send attempts, and it
\* eventually reaches its terminal state with the teardown attempted.
C20_RunTerminates ==
    /\ []((config.retry_attempts >= 1 /\ config.max_files_per_group >= 1)
          => SendCount <= NumUnits * config.retry_attempts)
    /\ <>(ValidPolicy => (Finished /\ TeardownAttempted))

\* A finished run over several groups in which every group needed all of
\* its attempts: units x retry_attempts send attempts were made.
C20_Witness ==
    /\ ValidPolicy
    /\ Attempts(config) >= 2
    /\ total_groups >= 2
    /\ Finished
    /\ TeardownAttempted
    /\ SendCount = NumUnits * config.retry_attempts

====
